---- MODULE Spec2Model ----
(***************************************************************************)
(* Email OTP verification service: the OTP ledger (otp_verifications),     *)
(* the identity store (users) and the request handlers that issue, verify  *)
(* and query, each handler a sequence of database statements run in its    *)
(* own SQLAlchemy session.                                                 *)
(***************************************************************************)
EXTENDS Integers, FiniteSets, Sequences, Bags, TLC

\* ---------------------------------------------------------------- bounds
NProcs == 2          \* request handlers that may be in flight at once
MaxIssues == 2       \* OTP rows ever inserted (autoincrement ids 1..MaxIssues)
TickMinutes == 10    \* granularity of the modelled clock, in minutes
MaxTime == 20        \* the clock stops advancing here
MaxLength == 6       \* longest code generate_otp is asked for
MaxDigit == 1        \* digits generate_otp draws from: "0" .. this one

\* ------------------------------------------------------ program constants
expiry_minutes == 10
default_length == 6

Ids == 1..MaxIssues
Emails == {"a@x.com", "b@x.com"}
Codes == {"123456", "654321"}
Backends == {"sqlite", "rowlock"}

\* Text as the requests carry it is a sequence of characters; "^2" stands for
\* the one character SUPERSCRIPT TWO (U+00B2).
DecimalChars == {"0", "1", "2", "3", "4", "5", "6", "7", "8", "9"}
Whitespace == {" "}

\* The X-API-KEY header values: none, the shared secret, another one.
Keys == {"", "k1", "k2"}

VARIABLES
    API_KEY,    \* os.getenv("API_KEY"), "" when unset
    backend,    \* the database DATABASE_URL selects: single-writer or row locks
    users,      \* committed rows of table users
    otps,       \* committed rows of table otp_verifications
    nextId,     \* next autoincrement id of otp_verifications
    now,        \* datetime.utcnow(), in minutes
    req,        \* the requests in flight, a bag: position and locals of each handler
    nAccepted,  \* history: per OTP row id, how many verify calls returned Accepted on it
    superseded, \* history: the rows store_otp deleted
    lastAccept  \* history: per email, the code accepted since the last issuance touched it

vars == <<API_KEY, backend, users, otps, nextId, now, req, nAccepted, superseded, lastAccept>>

env == <<API_KEY, backend>>
db == <<env, users, otps, nextId>>
hist == <<nAccepted, superseded, lastAccept>>

\* ------------------------------------------------------------- data model
User(i, e, v) == [id |-> i, email |-> e, is_verified |-> v]

OTPVerification(i, e, c, x, v, t) ==
    [id |-> i, email |-> e, otp |-> c, expires_at |-> x, verified |-> v, created_at |-> t]

\* A handler's locals: op is the request, key its X-API-KEY header, sel the id of the row verify_otp
\* selected, at the clock value verify_otp read, del the ids its DELETE removed,
\* created whether verify_otp's get_user_or_create inserted the user, res the outcome
\* returned; overlap is history: which other requests were in
\* flight while this one was ("none", "verify": only reads and verifications,
\* "issue": an issuance among them).
Request == [pc |-> "idle", op |-> "none", key |-> "", email |-> "", code |-> "", sel |-> 0, at |-> 0,
         del |-> {}, created |-> FALSE, res |-> "none", overlap |-> "none"]

Running(r) == r.pc \notin {"idle", "done"}

IsIssue(r) == r.op \in {"send", "store"}

\* Rows of otp_verifications matching email = e AND verified = False.
Unverified(e) == {r \in otps : r.email = e /\ r.verified = FALSE}

UserRows(e) == {u \in users : u.email = e}

\* ----------------------------------------------------------------- text
\* str.lower on one character, for the letters the addresses are made of.
lower_char(ch) == CASE ch = "A" -> "a" [] ch = "X" -> "x" [] ch = "C" -> "c" [] OTHER -> ch

lower_nothing(s) == s

lower(s) == [i \in 1..Len(s) |-> lower_char(s[i])]

RECURSIVE lstrip(_)
lstrip(s) == IF s # <<>> /\ Head(s) \in Whitespace THEN lstrip(Tail(s)) ELSE s

RECURSIVE rstrip(_)
rstrip(s) == IF s # <<>> /\ s[Len(s)] \in Whitespace THEN rstrip(SubSeq(s, 1, Len(s) - 1)) ELSE s

strip(s) == rstrip(lstrip(s))

\* str.isdigit: at least one character, all of them digits; the superscript
\* digits count as digits, though they are not decimal characters.
isdigit(s) == s # <<>> /\ \A i \in 1..Len(s) : s[i] \in DecimalChars \cup {"^2"}

\* The characters of s as one string.
RECURSIVE Text(_)
Text(s) == IF s = <<>> THEN "" ELSE Head(s) \o Text(Tail(s))

\* email = request.email.lower().strip()
normalized(raw) == Text(strip(lower(raw)))

\* not (not otp_code.isdigit() or len(otp_code) != 6)
otp_format_ok(s) == isdigit(s) /\ Len(s) = 6

\* string.digits, up to the largest digit drawn.
string_digits == {<<"0", "1", "2", "3", "4", "5", "6", "7", "8", "9">>[d + 1] : d \in 0..MaxDigit}

\* generate_otp: ''.join(random.choices(string.digits, k=length)), the texts
\* it can return.
generate_otp_short(length) == [1..(length - 1) -> string_digits]

generate_otp(length) == [1..length -> string_digits]

\* ------------------------------------------------------------- the inputs
PlainAddress == <<"a", "@", "x", ".", "c", "o", "m">>
PaddedAddress == <<" ", "A", "@", "X", ".", "c", "o", "m", " ">>
OtherAddress == <<"b", "@", "x", ".", "c", "o", "m">>

\* The address the requests are for, and the ways clients write it.
Served == {PlainAddress}
Written == {PlainAddress, PaddedAddress}

\* The addresses of two clients.
Clients == {PlainAddress, OtherAddress}

Code1 == <<"1", "2", "3", "4", "5", "6">>
Code2 == <<"6", "5", "4", "3", "2", "1">>
PaddedCode == <<" ", "1", "2", "3", "4", "5", "6", " ">>
ShortCode == <<"1", "2", "3", "4", "5">>
LetterCode == <<"1", "2", "3", "4", "5", "a">>
SuperscriptCode == <<"1", "2", "3", "4", "5", "^2">>

\* The texts clients submit as the code.
Typed == {Code1, PaddedCode, ShortCode, LetterCode, SuperscriptCode}

\* What the handlers make of each input before they call the database layer:
\* the email lowered and stripped, the code stripped and its format checked.
email_of == [raw \in Written \cup Clients |-> normalized(raw)]

otp_code_of ==
    [otp \in Typed \cup {Code1, Code2} |->
        [text |-> Text(strip(otp)), format_ok |-> otp_format_ok(strip(otp))]]

\* ------------------------------------------------------------ the boundary
\* verify_api_key: the header is there and, when API_KEY is set, equals it.
verify_api_key(x_api_key) ==
    /\ x_api_key # ""
    /\ ~(API_KEY # "" /\ x_api_key # API_KEY)

\* HTTPException 401 raised by the dependency, before the handler runs.
Unauthorized(base) == [base EXCEPT !.pc = "done", !.res = "Unauthorized"]

\* ---------------------------------------------------------- the database
\* The requests in flight beside r.
Others(r) == req (-) SetToBag({r})

\* A write statement touching the rows with ids `rows` has to
\* wait while another session holds an uncommitted write: any such session
\* under SQLite (one writer at a time), one that wrote one of the same rows
\* under a row-locking database.  The only uncommitted write a session keeps
\* across statements is store_otp's DELETE (pc = "insert").
Locked(sessions, rows) ==
    \E q \in BagToSet(sessions) :
        /\ q.pc = "insert"
        /\ backend = "rowlock" => q.del \cap rows # {}

WriteBlocked(r, rows) == Locked(Others(r), rows)

Inserting == {q \in BagToSet(req) : q.pc = "insert"}

RECURSIVE Copies(_, _)
Copies(B, S) == IF S = {} THEN 0
                ELSE LET x == CHOOSE x \in S : TRUE IN CopiesIn(x, B) + Copies(B, S \ {x})

\* Room for one more row of otp_verifications, counting the inserts in flight.
HasRoom == nextId + Copies(req, Inserting) <= MaxIssues

\* A handler is free to take a request.
HandlerFree == BagCardinality(req) < NProcs

\* A handler that has returned sends its response before any other handler
\* moves: the response touches no shared state.
NoResponsePending == \A q \in BagToSet(req) : q.pc # "done"

Worse(a, b) == IF "issue" \in {a, b} THEN "issue" ELSE IF "verify" \in {a, b} THEN "verify" ELSE "none"

\* The outcomes of a request turned away before its handler's core call.
Rejections == {"Unauthorized", "BadFormat"}

Kind(r) == IF IsIssue(r) /\ r.res \notin Rejections THEN "issue" ELSE "verify"

Overlapped(q, k) == IF Running(q) THEN [q EXCEPT !.overlap = Worse(@, k)] ELSE q

\* The requests in flight, each marked as overlapped by a request of kind k.
Mark(k) ==
    LET img == {Overlapped(q, k) : q \in BagToSet(req)} IN
    [y \in img |-> Copies(req, {q \in BagToSet(req) : Overlapped(q, k) = y})]

\* A handler takes a request; r is its state after the request's first step.
Begin(r) ==
    /\ NoResponsePending
    /\ HandlerFree
    /\ req' = Mark(Kind(r)) (+) SetToBag({[r EXCEPT !.overlap =
                 IF \E o \in BagToSet(req) : Running(o) /\ IsIssue(o) THEN "issue"
                 ELSE IF \E o \in BagToSet(req) : Running(o) THEN "verify"
                 ELSE "none"]})

Step(r, n) == req' = Others(r) (+) SetToBag({n})

\* The handler returns: the session is closed, the response is pending.
Finish(r, result) == Step(r, [r EXCEPT !.pc = "done", !.res = result, !.del = {}])

\* An issuance for e is under way or done: what was accepted before is history.
Touch(e) == lastAccept' = [lastAccept EXCEPT ![e] = ""]

\* The tables are empty, no request is in flight.
Empty ==
    /\ users = {}
    /\ otps = {}
    /\ nextId = 1
    /\ now = 0
    /\ req = EmptyBag
    /\ nAccepted = [i \in Ids |-> 0]
    /\ superseded = {}
    /\ lastAccept = [e \in Emails |-> ""]

\* API_KEY is set.
Init ==
    /\ API_KEY = "k1"
    /\ backend \in Backends
    /\ Empty

\* API_KEY is set or not.
InitBoundary ==
    /\ API_KEY \in {"", "k1"}
    /\ backend \in Backends
    /\ Empty

\* ------------------------------------------------------------- issuance
\* User(email=email, is_verified=False)
NewUserVerified(e) == User(Cardinality(users) + 1, e, TRUE)

NewUser(e) == User(Cardinality(users) + 1, e, FALSE)

\* users.email is unique: the INSERT of a second row for an email raises.
UniqueViolationIgnored(e) == FALSE

UniqueViolation(e) == UserRows(e) # {}

\* get_user_or_create, db.add(user): the users table with the new row.
InsertUserSkipped(e) == users

InsertUser(e) == users \cup {NewUser(e)}

\* get_user_or_create, the lookup: SELECT ... FROM users WHERE email = e.
SendOtp(raw, k) ==
    /\ \E e \in {email_of[raw]} :
         LET base == [Request EXCEPT !.op = "send", !.key = k, !.email = e] IN
         IF ~verify_api_key(k)
         THEN /\ Begin(Unauthorized(base))
              /\ UNCHANGED lastAccept
         ELSE /\ Begin([base EXCEPT !.pc = IF UserRows(e) = {} THEN "uinsert" ELSE "delete"])
              /\ Touch(e)
    /\ UNCHANGED <<db, now, nAccepted, superseded>>

\* get_user_or_create, the insert: db.add(user); db.commit().  users.email is
\* unique, so a row committed by another session since the lookup makes the
\* INSERT raise; send_otp turns the exception into a 500.
UserInsert(r) ==
    /\ r.pc = "uinsert"
    /\ ~WriteBlocked(r, {})
    /\ IF UniqueViolation(r.email)
       THEN /\ Finish(r, "Fault")
            /\ UNCHANGED users
       ELSE /\ users' = InsertUser(r.email)
            /\ Step(r, [r EXCEPT !.pc = "delete"])
    /\ UNCHANGED <<env, otps, nextId, now, hist>>

\* The rows store_otp's bulk DELETE removes: email = e AND verified = False.
DeleteFilterNone(e) == {}

DeleteFilterAll(e) == {r.id : r \in {o \in otps : o.email = e}}

DeleteFilterEveryEmail(e) == {r.id : r \in {o \in otps : o.verified = FALSE}}

DeleteFilter(e) == {r.id : r \in Unverified(e)}

\* store_otp up to the insert: the DELETE statement runs in the session's open
\* transaction, and its rows stay write-locked until the commit.
AfterDelete(r, c) ==
    [r EXCEPT !.pc = "insert", !.code = c, !.del = DeleteFilter(r.email)]

\* send_otp_email: generate_otp() draws the code, then store_otp runs.
SendDelete(r) ==
    /\ r.pc = "delete"
    /\ HasRoom
    /\ ~WriteBlocked(r, DeleteFilter(r.email))
    /\ \E c \in Codes : Step(r, AfterDelete(r, c))
    /\ UNCHANGED <<db, now, hist>>

\* store_otp called directly (no identity is created), as the tests do.
StoreOtp(e, c) ==
    /\ HasRoom
    /\ ~Locked(req, DeleteFilter(e))
    /\ Begin(AfterDelete([Request EXCEPT !.op = "store", !.email = e], c))
    /\ Touch(e)
    /\ UNCHANGED <<db, now, nAccepted, superseded>>

\* The ledger store_otp's commit leaves: the rows its DELETE matched are gone,
\* the new row is in.
StoredRowsLost(r) == otps

StoredRows(r) ==
    {o \in otps : o.id \notin r.del}
        \cup {OTPVerification(nextId, r.email, r.code, now + expiry_minutes, FALSE, now)}

\* store_otp from the expiry computation to the return: expires_at is the clock
\* plus the time to live, INSERT and COMMIT make the DELETE and the new row
\* visible together, and created_at defaults to the clock at INSERT.
\* send_otp_email then hands the code to SMTP, which delivers or fails.
StoreInsert(r) ==
    /\ r.pc = "insert"
    /\ otps' = StoredRows(r)
    /\ nextId' = nextId + 1
    /\ superseded' = superseded \cup
                       {[email |-> o.email, otp |-> o.otp] : o \in {x \in otps : x.id \in r.del}}
    /\ Touch(r.email)
    /\ \E delivered \in BOOLEAN :
          Finish(r, IF r.op = "store" THEN "Stored"
                    ELSE IF delivered THEN "Sent" ELSE "DeliveryFailed")
    /\ UNCHANGED <<env, users, now, nAccepted>>

\* --------------------------------------------------------- verification
\* The row verify_otp's query returns: unverified rows of the email ordered by
\* created_at descending, first one.  Rows with equal created_at come back in
\* an order the database picks.
AnyUnverified(e) == Unverified(e)

MostRecentUnverified(e) ==
    {r \in Unverified(e) : \A o \in Unverified(e) : o.created_at <= r.created_at}

\* if datetime.utcnow() > otp_record.expires_at
IsExpiredNever(r) == FALSE

IsExpired(r) == now > r.expires_at

\* if otp_record.otp != otp_code
IsMismatchNever(r, c) == FALSE

IsMismatch(r, c) == r.otp # c

\* if not otp_record: return False, "No active OTP found ..."
NotFoundCreatesUser(base) == [base EXCEPT !.pc = "vuinsert"]

NotFound(base) == [base EXCEPT !.pc = "done", !.res = "NoActiveCode"]

\* otp_record.verified = False, the assignment of the expired branch.
MarkExpiredConsumes(i) == {IF r.id = i THEN [r EXCEPT !.verified = TRUE] ELSE r : r \in otps}

MarkExpired(i) == {IF r.id = i THEN [r EXCEPT !.verified = FALSE] ELSE r : r \in otps}

\* The checks verify_otp makes on the selected row, in the code's order.
OutcomeMismatchFirst(r, c) ==
    IF IsMismatch(r, c) THEN "Mismatch" ELSE IF IsExpired(r) THEN "Expired" ELSE "Accepted"

Outcome(r, c) ==
    IF IsExpired(r) THEN "Expired" ELSE IF IsMismatch(r, c) THEN "Mismatch" ELSE "Accepted"

\* verify_otp from the query to the first return or to get_user_or_create.
\* The endpoint strips the code and checks its format before the call; the
\* expired branch assigns verified = False to the row it selected and commits.
VerifyOtp(raw, k, otp) ==
    /\ \E e \in {email_of[raw]}, otp_code \in {otp_code_of[otp]} :
       \E base \in {[Request EXCEPT !.op = "verify", !.key = k, !.email = e,
                                    !.code = otp_code.text, !.at = now]} :
         IF ~verify_api_key(k)
         THEN /\ Begin(Unauthorized(base))
              /\ UNCHANGED otps
         ELSE IF ~otp_code.format_ok
         THEN /\ Begin([base EXCEPT !.pc = "done", !.res = "BadFormat"])
              /\ UNCHANGED otps
         ELSE IF Unverified(e) = {}
         THEN /\ Begin(NotFound(base))
              /\ UNCHANGED otps
         ELSE \E r \in MostRecentUnverified(e) :
                LET out == Outcome(r, base.code) IN
                /\ Begin(IF out = "Accepted"
                         THEN [base EXCEPT !.pc = "vuser", !.sel = r.id]
                         ELSE [base EXCEPT !.pc = "done", !.sel = r.id, !.res = out])
                /\ otps' = IF out = "Expired" THEN MarkExpired(r.id) ELSE otps
    /\ UNCHANGED <<env, users, nextId, now, hist>>

\* get_user_or_create inside verify_otp, the lookup (autoflush is off, so the
\* pending verified = True is not written here).
VerifyUser(r) ==
    /\ r.pc = "vuser"
    /\ Step(r, [r EXCEPT !.pc = IF UserRows(r.email) = {} THEN "vuinsert" ELSE "vcommit"])
    /\ UNCHANGED <<db, now, hist>>

\* The flush of otp_record.verified = True: UPDATE ... WHERE id = sel.  The ORM
\* checks the statement's row count and raises when the row is gone.
RowMissingIgnored(i) == FALSE

RowMissing(i) == \A r \in otps : r.id # i

MarkVerifiedForgotten(i) == otps

MarkVerified(i) == {IF r.id = i THEN [r EXCEPT !.verified = TRUE] ELSE r : r \in otps}

\* user.is_verified = True, flushed as UPDATE users ... WHERE id = user.id.
MarkUserForgotten(e) == users

MarkUser(e) == {IF u.email = e THEN [u EXCEPT !.is_verified = TRUE] ELSE u : u \in users}

\* History of an Accepted outcome on row i of email e; the code is remembered
\* when no other row of e was unverified.
Accept(i, e, c) ==
    /\ nAccepted' = [nAccepted EXCEPT ![i] = @ + 1]
    /\ lastAccept' = [lastAccept EXCEPT ![e] = IF \A o \in Unverified(e) : o.id = i THEN c ELSE ""]
    /\ UNCHANGED superseded

\* get_user_or_create inside verify_otp, the insert: its db.commit() flushes the
\* new user and the pending verified = True of the OTP row in one transaction.
\* A unique violation or a vanished OTP row raises, the session rolls back and
\* the endpoint answers 500.
VerifyUserInsert(r) ==
    /\ r.pc = "vuinsert"
    /\ ~WriteBlocked(r, {r.sel})
    /\ IF UniqueViolation(r.email) \/ RowMissing(r.sel)
       THEN /\ Finish(r, "Fault")
            /\ UNCHANGED <<users, otps>>
       ELSE /\ users' = InsertUser(r.email)
            /\ otps' = MarkVerified(r.sel)
            /\ Step(r, [r EXCEPT !.pc = "vcommit2", !.created = TRUE])
    /\ UNCHANGED <<env, nextId, now, hist>>

\* verify_otp's own db.commit() when the user existed: the OTP row and the
\* user row are updated in one transaction, then Accepted is returned.
VerifyCommit(r) ==
    /\ r.pc = "vcommit"
    /\ ~WriteBlocked(r, {r.sel})
    /\ IF RowMissing(r.sel)
       THEN /\ Finish(r, "Fault")
            /\ UNCHANGED <<users, otps, hist>>
       ELSE /\ otps' = MarkVerified(r.sel)
            /\ users' = MarkUser(r.email)
            /\ Accept(r.sel, r.email, r.code)
            /\ Finish(r, "Accepted")
    /\ UNCHANGED <<env, nextId, now>>

\* verify_otp's own db.commit() after get_user_or_create committed the new
\* user together with the OTP row: only the user row is left to update.
VerifyCommit2(r) ==
    /\ r.pc = "vcommit2"
    /\ ~WriteBlocked(r, {})
    /\ users' = MarkUser(r.email)
    /\ Accept(r.sel, r.email, r.code)
    /\ Finish(r, "Accepted")
    /\ UNCHANGED <<env, otps, nextId, now>>

\* ------------------------------------------------------------ status query
\* is_user_verified: the user's flag, False when there is no user.
is_user_registered(e) == UserRows(e) # {}

is_user_verified(e) == \E u \in users : u.email = e /\ u.is_verified

VerificationStatus(raw, k) ==
    /\ \E e \in {email_of[raw]} :
         LET base == [Request EXCEPT !.op = "status", !.key = k, !.email = e] IN
         IF ~verify_api_key(k)
         THEN Begin(Unauthorized(base))
         ELSE Begin([base EXCEPT !.pc = "done",
                                 !.res = IF is_user_verified(e) THEN "Verified" ELSE "NotVerified"])
    /\ UNCHANGED <<db, now, hist>>

\* ---------------------------------------------------------------- responses
\* The HTTP status an endpoint answers an outcome with.
status_code(res) ==
    CASE res \in {"Sent", "Accepted", "Verified", "NotVerified"} -> 200
      [] res \in {"NoActiveCode", "Expired", "Mismatch", "BadFormat"} -> 400
      [] res = "Unauthorized" -> 401
      [] res \in {"DeliveryFailed", "Fault"} -> 500
      [] OTHER -> 0

\* The message the caller of verify-otp gets with an outcome.
message(res) ==
    CASE res = "NoActiveCode" -> "No active OTP found for this email. Please request a new OTP."
      [] res = "Expired" -> "OTP has expired. Please request a new OTP."
      [] res = "Mismatch" -> "Invalid OTP. Please check and try again."
      [] res = "Accepted" -> "Email verified successfully!"
      [] res = "BadFormat" -> "OTP must be a 6-digit number."
      [] OTHER -> ""

\* ------------------------------------------------------------- environment
\* The response is sent and the handler is free for the next request.
Respond(r) ==
    /\ r.pc = "done"
    /\ req' = Others(r)
    /\ UNCHANGED <<db, now, hist>>

Tick ==
    /\ NoResponsePending
    /\ now + TickMinutes <= MaxTime
    /\ now' = now + TickMinutes
    /\ UNCHANGED <<db, req, hist>>

\* The requests whose next statement may run.
InFlight == IF NoResponsePending THEN BagToSet(req) ELSE {}

\* Clients that send the configured key and submit six-digit codes.
Next ==
    \/ \E raw \in Served : SendOtp(raw, API_KEY)
    \/ \E r \in InFlight : UserInsert(r)
    \/ \E r \in InFlight : SendDelete(r)
    \/ \E e \in {email_of[raw] : raw \in Served}, c \in Codes : StoreOtp(e, c)
    \/ \E r \in InFlight : StoreInsert(r)
    \/ \E raw \in Served, otp \in {Code1, Code2} : VerifyOtp(raw, API_KEY, otp)
    \/ \E r \in InFlight : VerifyUser(r)
    \/ \E r \in InFlight : VerifyUserInsert(r)
    \/ \E r \in InFlight : VerifyCommit(r)
    \/ \E r \in InFlight : VerifyCommit2(r)
    \/ \E raw \in Served : VerificationStatus(raw, API_KEY)
    \/ \E r \in BagToSet(req) : Respond(r)
    \/ Tick

\* Concurrent handlers serving one email address.
Spec == Init /\ [][Next]_vars

\* Clients that send any header and submit any text as the code.
NextBoundary ==
    \/ \E raw \in Written, k \in Keys : SendOtp(raw, k)
    \/ \E r \in InFlight : UserInsert(r)
    \/ \E r \in InFlight : SendDelete(r)
    \/ \E e \in {email_of[raw] : raw \in Written}, c \in Codes : StoreOtp(e, c)
    \/ \E r \in InFlight : StoreInsert(r)
    \/ \E raw \in Written, k \in Keys, otp \in Typed : VerifyOtp(raw, k, otp)
    \/ \E r \in InFlight : VerifyUser(r)
    \/ \E r \in InFlight : VerifyUserInsert(r)
    \/ \E r \in InFlight : VerifyCommit(r)
    \/ \E r \in InFlight : VerifyCommit2(r)
    \/ \E raw \in Written, k \in Keys : VerificationStatus(raw, k)
    \/ \E r \in BagToSet(req) : Respond(r)
    \/ Tick

\* Clients that write the address in either case, padded or not.
NextAddresses ==
    \/ \E raw \in Written : SendOtp(raw, API_KEY)
    \/ \E r \in InFlight : UserInsert(r)
    \/ \E r \in InFlight : SendDelete(r)
    \/ \E e \in {email_of[raw] : raw \in Written}, c \in Codes : StoreOtp(e, c)
    \/ \E r \in InFlight : StoreInsert(r)
    \/ \E raw \in Written, otp \in {Code1, Code2} : VerifyOtp(raw, API_KEY, otp)
    \/ \E r \in InFlight : VerifyUser(r)
    \/ \E r \in InFlight : VerifyUserInsert(r)
    \/ \E r \in InFlight : VerifyCommit(r)
    \/ \E r \in InFlight : VerifyCommit2(r)
    \/ \E raw \in Written : VerificationStatus(raw, API_KEY)
    \/ \E r \in BagToSet(req) : Respond(r)
    \/ Tick

SpecAddresses == Init /\ [][NextAddresses]_vars

\* Two clients, each with an address of its own, one of them sent a code
\* before: the first is served as in Next, the other verifies and asks for its
\* status.
NextClients ==
    \/ \E raw \in Served : SendOtp(raw, API_KEY)
    \/ \E r \in InFlight : UserInsert(r)
    \/ \E r \in InFlight : SendDelete(r)
    \/ \E e \in {email_of[raw] : raw \in Served}, c \in Codes : StoreOtp(e, c)
    \/ \E r \in InFlight : StoreInsert(r)
    \/ \E raw \in Clients, otp \in {Code1, Code2} : VerifyOtp(raw, API_KEY, otp)
    \/ \E r \in InFlight : VerifyUser(r)
    \/ \E r \in InFlight : VerifyUserInsert(r)
    \/ \E r \in InFlight : VerifyCommit(r)
    \/ \E r \in InFlight : VerifyCommit2(r)
    \/ \E raw \in Clients : VerificationStatus(raw, API_KEY)
    \/ \E r \in BagToSet(req) : Respond(r)
    \/ Tick

\* The tables after the client at raw was sent a code and, if v, had it
\* accepted; no request is in flight.
ClientServed(raw, v) ==
    LET e == email_of[raw] IN
    /\ users = {User(1, e, v)}
    /\ otps = {OTPVerification(1, e, "123456", expiry_minutes, v, 0)}
    /\ nextId = 2
    /\ now = 0
    /\ req = EmptyBag
    /\ nAccepted = [i \in Ids |-> IF v /\ i = 1 THEN 1 ELSE 0]
    /\ superseded = {}
    /\ lastAccept = [x \in Emails |-> IF v /\ x = e THEN "123456" ELSE ""]

InitClients ==
    /\ API_KEY = "k1"
    /\ backend \in Backends
    /\ \E raw \in Clients, v \in BOOLEAN : ClientServed(raw, v)

SpecClients == InitClients /\ [][NextClients]_vars

\* A call of generate_otp returns one of its texts.
GenerateOtp(length) ==
    /\ NoResponsePending
    /\ HandlerFree
    /\ \E c \in generate_otp(length) :
          req' = req (+) SetToBag({[pc |-> "done", op |-> "generate", length |-> length,
                                    otp_code |-> c]})
    /\ UNCHANGED <<db, now, hist>>

NextGenerate ==
    \/ \E length \in 0..MaxLength : GenerateOtp(length)
    \/ \E r \in BagToSet(req) : Respond(r)

\* generate_otp alone, called with every length.
SpecGenerate == Init /\ [][NextGenerate]_vars

\* The same handlers behind the boundary, taking whatever the clients send.
SpecBoundary == InitBoundary /\ [][NextBoundary]_vars

\* A single-writer database serialises two store_otp calls.
SqliteNeverTwoActive == backend = "sqlite" => \A e \in Emails : Cardinality(Unverified(e)) <= 1

\* ================================================================ claims
Done == {r \in BagToSet(req) : r.pc = "done"}

Issued == {"Stored", "Sent", "DeliveryFailed"}

\* The one unverified row of r's email holds r's code.
OneActiveWithCode(r) ==
    /\ Cardinality(Unverified(r.email)) = 1
    /\ \A o \in Unverified(r.email) : o.otp = r.code

\* C1: right after a store_otp that no other request overlapped returns, its
\* email has exactly one unverified row and that row carries the code stored.
C1_StoreLeavesOneActive ==
    \A r \in Done :
        IsIssue(r) /\ r.res \in Issued /\ r.overlap = "none" => OneActiveWithCode(r)

\* A second issuance has replaced the row of the first.
C1_Witness ==
    \E r \in Done :
        /\ IsIssue(r) /\ r.res \in Issued /\ r.overlap = "none"
        /\ nextId = 3 /\ Cardinality(otps) = 1 /\ superseded # {}

\* C2: no state holds two unverified rows for one email, however the DELETE
\* and the INSERT + COMMIT of two store_otp calls interleave.
C2_NeverTwoActive == \A e \in Emails : Cardinality(Unverified(e)) <= 1

\* C3: no OTP row is ever the subject of two Accepted outcomes.
C3_AtMostOneAccepted == \A i \in Ids : nAccepted[i] <= 1

\* C4: a verify_otp returns Accepted only on a row that is still in the ledger,
\* now verified (never on a row an issuance deleted in the meantime), and an
\* issuance overlapped by verifications only leaves exactly one unverified row,
\* its own.
C4_IssueAtomicForVerify ==
    /\ \A r \in Done :
          r.op = "verify" /\ r.res = "Accepted" =>
              \E o \in otps : o.id = r.sel /\ o.verified /\ o.otp = r.code
    /\ \A r \in Done :
          IsIssue(r) /\ r.res \in Issued /\ r.overlap # "issue" => OneActiveWithCode(r)

\* A verification whose selected row an issuance deleted has failed, and the
\* issuance's row is the one unverified row.
C4_Witness ==
    \E r \in Done :
        /\ r.op = "verify" /\ r.res = "Fault" /\ RowMissing(r.sel)
        /\ Cardinality(Unverified(r.email)) = 1
        /\ [email |-> r.email, otp |-> r.code] \in superseded

\* The request n was taken in this step.
Began(n) ==
    /\ BagCardinality(req') = BagCardinality(req) + 1
    /\ BagIn(n, req')
    /\ req' = Mark(Kind(n)) (+) SetToBag({n})

\* The request n was taken in this step and its handler called verify_otp.
BeganVerify(n) == Began(n) /\ n.op = "verify" /\ n.res \notin Rejections

Failed == {"NoActiveCode", "Expired", "Mismatch"}

\* c is the code of e's one unverified row, and the row's expiry lies ahead.
ValidActive(e, c) == \E o \in otps : Unverified(e) = {o} /\ o.otp = c /\ now < o.expires_at

\* C5: verify_otp with the code of the email's one unverified row, before the
\* row's expiry and overlapped by no other request, returns Accepted; a
\* verify_otp with that code begun after the Accepted, with no issuance for the
\* email since, returns NoActiveCode.
C5_OneTimeUse ==
    /\ [](\A r \in Done :
            r.op = "verify" =>
                /\ r.res \in Failed => ~ValidActive(r.email, r.code)
                /\ r.overlap = "none" => r.res \in Failed \cup {"Accepted"})
    /\ [][\A n \in BagToSet(req') :
            BeganVerify(n) /\ lastAccept[n.email] = n.code =>
                n.pc = "done" /\ n.res = "NoActiveCode"]_vars

\* The second verification with an accepted code has answered NoActiveCode.
C5_Witness ==
    \E r \in Done :
        /\ r.op = "verify" /\ r.res = "NoActiveCode" /\ lastAccept[r.email] = r.code
        /\ \E o \in otps : o.email = r.email /\ o.otp = r.code /\ nAccepted[o.id] = 1

\* C6 as stated: verify_otp with the stored code, reading the clock at or after
\* the selected row's expires_at, returns Expired.
C6_ExpiredFromExpiresAt ==
    \A r \in Done :
        r.op = "verify" =>
            \A o \in otps : o.id = r.sel /\ o.otp = r.code /\ r.at >= o.expires_at => r.res = "Expired"

\* C6 amended: verify_otp reading the clock after the selected row's expires_at
\* returns Expired, whatever the code.
C6_ExpiredAfterExpiresAt ==
    \A r \in Done :
        r.op = "verify" =>
            \A o \in otps : o.id = r.sel /\ r.at > o.expires_at => r.res = "Expired"

\* The stored code was submitted after expiry and refused as expired.
C6_Witness ==
    \E r \in Done :
        /\ r.op = "verify" /\ r.res = "Expired"
        /\ \E o \in otps : o.id = r.sel /\ o.otp = r.code /\ r.at > o.expires_at

\* e's one unverified row has not expired and holds another code than c.
WrongCodeOnValid(e, c) == \E o \in otps : Unverified(e) = {o} /\ o.otp # c /\ now <= o.expires_at

\* C7: verify_otp with a wrong code against the email's one unverified,
\* unexpired row returns Mismatch and changes neither table; the row it
\* selected is still unverified afterwards.
C7_MismatchKeepsCode ==
    /\ [][\A n \in BagToSet(req') :
            BeganVerify(n) /\ WrongCodeOnValid(n.email, n.code) =>
                n.pc = "done" /\ n.res = "Mismatch" /\ UNCHANGED <<users, otps>>]_vars
    /\ [](\A r \in Done :
            r.op = "verify" /\ r.res = "Mismatch" =>
                \E o \in Unverified(r.email) : o.id = r.sel /\ o.otp # r.code)

\* A wrong code was refused while the right one is still valid.
C7_Witness ==
    \E r \in Done :
        /\ r.op = "verify" /\ r.res = "Mismatch"
        /\ \E c \in Codes : ValidActive(r.email, c)

\* A row holding code c of email e was deleted by a later issuance, whose row
\* is e's one unverified row and holds another code.
Reissued(e, c) ==
    /\ [email |-> e, otp |-> c] \in superseded
    /\ \E o \in otps : Unverified(e) = {o} /\ o.otp # c

\* C8 as stated: verify_otp with the code of the earlier issuance returns
\* NoActiveCode.
C8_SupersededIsNoActiveCode ==
    [][\A n \in BagToSet(req') :
          BeganVerify(n) /\ Reissued(n.email, n.code) =>
              n.pc = "done" /\ n.res = "NoActiveCode"]_vars

\* C8 amended: verify_otp with the code of the earlier issuance returns
\* Mismatch, or Expired once the later row has expired; it does not get as far
\* as Accepted.
C8_SupersededIsMismatch ==
    [][\A n \in BagToSet(req') :
          BeganVerify(n) /\ Reissued(n.email, n.code) =>
              /\ n.pc = "done"
              /\ \A o \in Unverified(n.email) :
                    n.res = IF now > o.expires_at THEN "Expired" ELSE "Mismatch"]_vars

\* The code of the earlier issuance was refused as a mismatch.
C8_Witness ==
    \E r \in Done :
        r.op = "verify" /\ r.res = "Mismatch" /\ Reissued(r.email, r.code)

\* Some verify_otp for e has returned Accepted.
AcceptedFor(e) == \E o \in otps : o.email = e /\ nAccepted[o.id] > 0

\* C9: once a verify_otp for an email has returned Accepted its user is
\* verified, and no step removes a user or takes its verified flag back.
C9_VerifiedIsMonotonic ==
    /\ [](\A e \in Emails : AcceptedFor(e) => is_user_verified(e))
    /\ [][\A u \in users : \E v \in users' :
            v.email = u.email /\ (u.is_verified => v.is_verified)]_vars

\* An issuance for a verified email has completed.
C9_Witness ==
    \E r \in Done : IsIssue(r) /\ r.res \in Issued /\ is_user_verified(r.email)

\* C10: a user is verified only if some verify_otp for its email returned
\* Accepted.
C10_VerifiedOnlyByAccepted == \A e \in Emails : is_user_verified(e) => AcceptedFor(e)

\* A verification failed for an email whose user exists, unverified.
C10_Witness ==
    \E r \in Done :
        /\ r.op = "verify" /\ r.res \in Failed
        /\ UserRows(r.email) # {} /\ ~is_user_verified(r.email)

\* C11 as stated: no row is ever removed, so every id handed out so far is
\* still in the ledger.
C11_LedgerAppendOnly == \A i \in 1..(nextId - 1) : \E o \in otps : o.id = i

\* The row o is gone after the step.
Removed(o) == \A n \in otps' : n.id # o.id

\* C11 amended: a verified row is never removed or changed; an unverified row
\* is left alone, or becomes verified with nothing else changed, or is removed
\* by the store_otp commit that inserts the next row of its email.
C11_OnlyUnverifiedRowsAreDeleted ==
    [][\A o \in otps :
          IF o.verified
          THEN o \in otps'
          ELSE \/ o \in otps'
               \/ [o EXCEPT !.verified = TRUE] \in otps'
               \/ /\ Removed(o)
                  /\ \E n \in otps' : n.id = nextId /\ n.email = o.email /\ ~n.verified]_vars

\* One row was deleted by an issuance, another one is verified and kept.
C11_Witness ==
    /\ superseded # {}
    /\ Cardinality(otps) < nextId - 1
    /\ \E o \in otps : o.verified

\* C12: verify_otp for an email without an unverified row returns
\* NoActiveCode, whatever the code, and changes neither table.
C12_NoActiveCodeChangesNothing ==
    [][\A n \in BagToSet(req') :
          BeganVerify(n) /\ Unverified(n.email) = {} =>
              /\ n.pc = "done" /\ n.res = "NoActiveCode"
              /\ UNCHANGED <<users, otps, nextId>>]_vars

\* A verification for an email nobody issued a code for was refused, and there
\* is still neither a user nor a row for it.
C12_Witness ==
    \E r \in Done :
        /\ r.op = "verify" /\ r.res = "NoActiveCode"
        /\ UserRows(r.email) = {}
        /\ \A o \in otps : o.email # r.email

\* c is the code of e's one unverified row, and the row has not expired.
Verifiable(e, c) == \E o \in otps : Unverified(e) = {o} /\ o.otp = c /\ now <= o.expires_at

\* C13: a send_otp whose delivery failed answers 500 and, overlapped by no
\* other request, leaves the email's one unverified row holding the code that
\* was not delivered; a verify_otp with the code of the one unverified,
\* unexpired row is not refused.
C13_DeliveryFailureKeepsCode ==
    /\ [](\A r \in Done :
            r.op = "send" /\ r.res = "DeliveryFailed" =>
                /\ status_code(r.res) = 500
                /\ r.overlap = "none" => OneActiveWithCode(r) /\ Verifiable(r.email, r.code))
    /\ [][\A n \in BagToSet(req') :
            BeganVerify(n) /\ Verifiable(n.email, n.code) =>
                n.pc = "vuser" /\ UNCHANGED <<users, otps>>]_vars

\* Delivery failed after the new row replaced an older one.
C13_Witness ==
    \E r \in Done :
        /\ r.op = "send" /\ r.res = "DeliveryFailed" /\ r.overlap = "none"
        /\ superseded # {} /\ OneActiveWithCode(r)

\* C15: the status query answers with the user's flag, False when the email
\* has no user, and changes neither table.
C15_StatusIsPureRead ==
    [][\A n \in BagToSet(req') :
          Began(n) /\ n.op = "status" =>
              /\ n.pc = "done"
              /\ n.res = IF \E u \in users : u.email = n.email /\ u.is_verified
                         THEN "Verified" ELSE "NotVerified"
              /\ UNCHANGED <<users, otps, nextId>>]_vars

\* The status of an email with a code but no user was asked for: the answer is
\* not verified and there is still no user.
C15_Witness ==
    \E r \in Done :
        /\ r.op = "status" /\ r.res = "NotVerified"
        /\ UserRows(r.email) = {} /\ Unverified(r.email) # {}

Outcomes == {"NoActiveCode", "Expired", "Mismatch", "Accepted"}

\* C18: verify_otp answers NoActiveCode without an unverified row; else
\* Expired when the clock is past the selected row's expires_at, whatever the
\* code; else Mismatch when the code differs; else it goes on to accept.  An
\* Accepted outcome is on a row with the submitted code, read before it
\* expired, and the four outcomes carry four different messages.
C18_OutcomeOrder ==
    /\ [][\A n \in BagToSet(req') :
            BeganVerify(n) =>
                IF Unverified(n.email) = {}
                THEN n.pc = "done" /\ n.res = "NoActiveCode"
                ELSE \E o \in MostRecentUnverified(n.email) :
                        /\ o.id = n.sel
                        /\ IF now > o.expires_at THEN n.pc = "done" /\ n.res = "Expired"
                           ELSE IF o.otp # n.code THEN n.pc = "done" /\ n.res = "Mismatch"
                           ELSE n.pc = "vuser"]_vars
    /\ [](\A r \in Done :
            r.op = "verify" /\ r.res = "Accepted" =>
                \E o \in otps : o.id = r.sel /\ o.otp = r.code /\ r.at <= o.expires_at)
    /\ \A a, b \in Outcomes : a # b => message(a) # message(b)

\* A wrong code against an expired row was answered Expired.
C18_Witness ==
    \E r \in Done :
        /\ r.op = "verify" /\ r.res = "Expired"
        /\ \E o \in otps : o.id = r.sel /\ o.otp # r.code /\ r.at > o.expires_at

\* C19: when verify_otp has returned Accepted, the row it selected is verified
\* and the email's user is verified, also when verify_otp had to create the
\* user.
C19_AcceptedConsumesAndVerifies ==
    \A r \in Done :
        r.op = "verify" /\ r.res = "Accepted" =>
            /\ \E o \in otps : o.id = r.sel /\ o.verified
            /\ \E u \in users : u.email = r.email /\ u.is_verified

\* An Accepted verify_otp created the user itself.
C19_Witness ==
    \E r \in Done :
        /\ r.op = "verify" /\ r.res = "Accepted" /\ r.created
        /\ users = {User(1, r.email, TRUE)}

\* C20: verify_otp against an expired row (the most recent unverified one of
\* the email) returns Expired and changes neither table, so the row is still
\* unverified afterwards and the next verify_otp meets the same state.
C20_ExpiredChangesNothing ==
    /\ [][\A n \in BagToSet(req') :
            /\ BeganVerify(n)
            /\ \E o \in MostRecentUnverified(n.email) : now > o.expires_at
            => /\ n.pc = "done" /\ n.res = "Expired"
               /\ UNCHANGED <<users, otps, nextId>>]_vars
    /\ [](\A r \in Done :
            r.op = "verify" /\ r.res = "Expired" =>
                \E o \in Unverified(r.email) : o.id = r.sel /\ r.at > o.expires_at)

\* The stored code was refused as expired, the row is still unverified and
\* the email has no user.
C20_Witness ==
    \E r \in Done :
        /\ r.op = "verify" /\ r.res = "Expired"
        /\ \E o \in Unverified(r.email) : o.id = r.sel /\ o.otp = r.code
        /\ UserRows(r.email) = {}

\* C14: a request to one of the three endpoints whose header is missing or is
\* not the configured API_KEY, set or unset, is answered 401 before its handler
\* runs.
C14_KeyGatesEveryOperation ==
    \A r \in BagToSet(req) :
        r.op \in {"send", "verify", "status"} /\ (r.key = "" \/ r.key # API_KEY) =>
            r.pc = "done" /\ r.res = "Unauthorized"

\* With API_KEY set the gate turns every other header away.
KeySetGatesEveryOperation ==
    API_KEY # "" =>
        \A r \in BagToSet(req) :
            r.op \in {"send", "verify", "status"} /\ r.key # API_KEY =>
                r.pc = "done" /\ r.res = "Unauthorized"

SixDecimalDigits(s) == Len(s) = 6 /\ \A i \in 1..Len(s) : s[i] \in DecimalChars

\* The submitted texts that are six decimal digits once stripped.
WellFormedCodes == {Text(strip(t)) : t \in {x \in Typed : SixDecimalDigits(strip(x))}}

\* C16: a verify-otp request past the key check whose stripped code is not six
\* decimal digits is answered 400 'OTP must be a 6-digit number.' without
\* verify_otp being called, and changes neither table.
C16_MalformedCodeIsRejected ==
    [][\A n \in BagToSet(req') :
          Began(n) /\ n.op = "verify" /\ n.res # "Unauthorized" /\ n.code \notin WellFormedCodes =>
              /\ n.pc = "done" /\ n.res = "BadFormat"
              /\ UNCHANGED <<users, otps, nextId>>]_vars

\* A code with a character that is no digit of any kind, or of another length,
\* is turned away before verify_otp.
NonDigitCodeIsRejected ==
    \A r \in BagToSet(req) :
        r.op = "verify" /\ r.code \in {Text(ShortCode), Text(LetterCode)} =>
            r.pc = "done" /\ r.res \in Rejections

\* x and y are the same letter in either case, or the same character.
SameLetter(x, y) == x = y \/ {x, y} \in {{"A", "a"}, {"X", "x"}, {"C", "c"}}

Blank(s, from, to) == \A i \in from..to : s[i] \in Whitespace

\* a and b differ only in letter case and in surrounding whitespace.
SameAddress(a, b) ==
    \E i \in 1..Len(a), j \in 1..Len(a), k \in 1..Len(b), l \in 1..Len(b) :
        /\ Blank(a, 1, i - 1) /\ Blank(a, j + 1, Len(a))
        /\ Blank(b, 1, k - 1) /\ Blank(b, l + 1, Len(b))
        /\ j - i = l - k
        /\ \A d \in 0..(j - i) : SameLetter(a[i + d], b[k + d])

\* The address a is written in lower case without surrounding whitespace.
Canonical(a) ==
    /\ a # <<>> /\ a[1] \notin Whitespace /\ a[Len(a)] \notin Whitespace
    /\ \A i \in 1..Len(a) : a[i] \notin {"A", "X", "C"}

CanonicalEmails == {Text(a) : a \in {x \in Written : Canonical(x)}}

\* Addresses that differ only in case and surrounding whitespace have one
\* normalised form.
NormalizedAlike == \A a, b \in Written : SameAddress(a, b) => normalized(a) = normalized(b)

VariantsWritten == \E a, b \in Written : a # b /\ SameAddress(a, b)

\* C17: no two users share an email, however the lookups and inserts of
\* get_user_or_create interleave; addresses that differ only in case and
\* surrounding whitespace are normalised to one email, and every request, user
\* and OTP row carries the lower-case, unpadded form.
C17_OneIdentityPerEmail ==
    /\ \A u, v \in users : u.email = v.email => u = v
    /\ NormalizedAlike
    /\ \A r \in BagToSet(req) : r.email \in CanonicalEmails
    /\ \A u \in users : u.email \in CanonicalEmails
    /\ \A o \in otps : o.email \in CanonicalEmails

\* Two requests for an unknown address both looked the user up and found
\* none; the second insert failed and there is one user.
C17_Witness ==
    \E r \in Done :
        /\ r.op = "send" /\ r.res = "Fault"
        /\ Cardinality(UserRows(r.email)) = 1
        /\ VariantsWritten

\* o was created before another unverified row of its email.
Older(o) == \E p \in Unverified(o.email) : p.created_at > o.created_at

\* C21: with more than one unverified row for the email, verify_otp selects a
\* row no other unverified row was created after; a code that only older
\* unverified rows hold is answered Mismatch or Expired and goes no further.
C21_MostRecentWins ==
    [][\A n \in BagToSet(req') :
          BeganVerify(n) /\ Cardinality(Unverified(n.email)) > 1 =>
              /\ \E o \in Unverified(n.email) : o.id = n.sel /\ ~Older(o)
              /\ (\A o \in Unverified(n.email) : o.otp = n.code => Older(o)) =>
                    n.pc = "done" /\ n.res \in {"Mismatch", "Expired"}]_vars

\* The code of the older of two unverified rows was refused against the newer.
C21_Witness ==
    \E r \in Done :
        /\ r.op = "verify" /\ r.res = "Mismatch"
        /\ \E o, p \in Unverified(r.email) :
              o.otp = r.code /\ p.id = r.sel /\ p.created_at > o.created_at

\* Every text generate_otp returns for a length up to MaxLength.
AllGenerated == UNION {generate_otp(l) : l \in 0..MaxLength}

\* Each of them as the string that is stored and compared.
text_of == [d \in AllGenerated |-> Text(d)]

\* C22: generate_otp(length) returns length characters, each a decimal digit,
\* zeros in front included; a text of the default length passes the format
\* check of verify-otp unchanged by the strip, and compared as text it matches
\* a stored code exactly when it is the same sequence of characters.
C22_GeneratedCodeIsDigits ==
    \A r \in Done :
        r.op = "generate" =>
            /\ Len(r.otp_code) = r.length
            /\ \A i \in 1..Len(r.otp_code) : r.otp_code[i] \in DecimalChars
            /\ r.length = default_length =>
                  strip(r.otp_code) = r.otp_code /\ otp_format_ok(strip(r.otp_code))
            /\ \A d \in AllGenerated :
                  IsMismatch([otp |-> text_of[r.otp_code]], text_of[d]) <=> d # r.otp_code

\* A code of the default length that starts with a zero was generated.
C22_Witness ==
    \E r \in Done :
        /\ r.op = "generate" /\ r.length = default_length
        /\ Len(r.otp_code) = default_length /\ r.otp_code[1] = "0"

\* C23: in every committed state a verified OTP row's email has a verified
\* user.
C23_ConsumedImpliesVerified == \A o \in otps : o.verified => is_user_verified(o.email)

\* The request for e that took a step, if the step was a handler's.
Acted(e) ==
    \/ \E n \in BagToSet(req') : n.email = e /\ Began(n)
    \/ \E r \in BagToSet(req), n \in BagToSet(req') :
          r.email = e /\ n.email = e /\ r.pc # "done" /\ Step(r, n)

ActedIssue(e) ==
    \/ \E n \in BagToSet(req') : n.email = e /\ IsIssue(n) /\ Began(n)
    \/ \E r \in BagToSet(req), n \in BagToSet(req') :
          r.email = e /\ n.email = e /\ IsIssue(r) /\ r.pc # "done" /\ Step(r, n)

\* C24: a step of a request for the email e leaves the users and the OTP rows
\* of every other email as they were, and a step of an issuance leaves every
\* user that exists as it was, is_verified included.
C24_PerEmailIsolation ==
    [][\A e \in Emails :
          /\ Acted(e) =>
                \A x \in Emails \ {e} :
                    /\ UserRows(x)' = UserRows(x)
                    /\ {o \in otps' : o.email = x} = {o \in otps : o.email = x}
          /\ ActedIssue(e) => \A u \in users : u \in users']_vars

\* A code of one email was accepted while the other email's unverified user
\* and unverified row stayed.
C24_Witness ==
    \E r \in Done :
        /\ r.op = "verify" /\ r.res = "Accepted"
        /\ \E u \in users : u.email = r.email /\ u.is_verified
        /\ \E u \in users : u.email # r.email /\ ~u.is_verified
        /\ \E o \in otps : o.email # r.email /\ ~o.verified

====
